---------------------------- MODULE Spec2Model ----------------------------
(***************************************************************************)
(* Model of csbuild/toolchain_msvc.py: the MSVC toolchain adapter.         *)
(*                                                                         *)
(* A path is a sequence of components; a trailing "" component is a        *)
(* trailing separator and <<>> is the empty string.  A command string is   *)
(* the sequence of its space-separated fragments, each <<flag, argument>>  *)
(* with the argument a path (a name is a one-component path).              *)
(***************************************************************************)
EXTENDS Naturals, Integers, Sequences, FiniteSets, TLC

VARIABLES
    HAS_SET_VC_VARS,   \* module global, line 33
    WINDOWS_SDK_DIR,   \* module global, line 34
    environ,           \* os.environ restricted to the VS<ver>COMNTOOLS variables
    machine,           \* platform.machine()
    vcvarsall,         \* what running vcvarsall.bat with an architecture token gives
    projects,          \* the settings record of each project of the build
    self,              \* the toolchain_msvc instances
    last,              \* the last public call: what it was given and what it gave
    spawns,            \* subprocesses started so far
    thr,               \* the threads inside SetupForProject (concurrent specification)
    files,             \* the paths that exist on the filesystem
    sdkWrites          \* the values assigned to WINDOWS_SDK_DIR, in order

vars == <<HAS_SET_VC_VARS, WINDOWS_SDK_DIR, environ, machine, vcvarsall, projects,
          self, last, spawns, thr, files, sdkWrites>>

---------------------------------------------------------------------------
\* Bounds of the model.

NumBuilders == 2
MaxSpawns == 2
MaxList == 2

Builders == 1 .. NumBuilders

\* the lists of at most MaxList elements of S
SeqsUpTo(S) == UNION {[1 .. n -> S] : n \in 0 .. MaxList}

---------------------------------------------------------------------------
\* Constants of the program.

X64 == "X64"
X86 == "X86"

\* class SubSystem: DEFAULT .. EFI_RUNTIME_DRIVER = range(11)
DEFAULT == 0
CONSOLE == 1
WINDOWS == 2
WINDOWS_CE == 3
NATIVE == 4
POSIX == 5
BOOT_APPLICATION == 6
EFI_APPLICATION == 7
EFI_BOOT_SERVICE_DRIVER == 8
EFI_ROM == 9
EFI_RUNTIME_DRIVER == 10
SubSystem == DEFAULT .. EFI_RUNTIME_DRIVER

DefaultMsvcVersion == 100

None == [none |-> TRUE]

---------------------------------------------------------------------------
\* os.path

Front(s) == SubSeq(s, 1, Len(s) - 1)
Last(s) == s[Len(s)]

Drives == {"C:"}

\* ntpath.join(p, c) for a relative component c
Join(p, c) ==
    IF p = <<>> THEN (IF c = "" THEN <<>> ELSE <<c>>)
    ELSE IF Last(p) = "" THEN (IF c = "" THEN p ELSE Append(Front(p), c))
    ELSE Append(p, c)

RECURSIVE NormComps(_, _)
\* the component loop of ntpath.normpath: drops "" and ".", lets ".." take
\* back the component before it (dropped at a drive root, kept when leading)
NormComps(done, rest) ==
    IF rest = <<>> THEN done
    ELSE LET c == Head(rest) IN
         IF c = "" \/ c = "." THEN NormComps(done, Tail(rest))
         ELSE IF c = ".." THEN
             IF done # <<>> /\ Last(done) \notin Drives /\ Last(done) # ".."
                 THEN NormComps(Front(done), Tail(rest))
             ELSE IF done # <<>> /\ Last(done) \in Drives
                 THEN NormComps(done, Tail(rest))
             ELSE NormComps(Append(done, c), Tail(rest))
         ELSE NormComps(Append(done, c), Tail(rest))

normpath(p) == LET n == NormComps(<<>>, p) IN IF n = <<>> THEN <<".">> ELSE n

---------------------------------------------------------------------------
\* The host.

MachineNames == {"AMD64", "x86_64", "x86", "i386", "ARM64"}

\* str.lower() on the machine names of the model
lower(s) == IF s = "AMD64" THEN "amd64" ELSE IF s = "ARM64" THEN "arm64" ELSE s

MsvcVersions == {100, 110}

\* the value of VS<ver>COMNTOOLS when it is set
ComnTools(ver) ==
    IF ver = 100 THEN <<"C:", "VS10", "Common7", "Tools", "">>
    ELSE <<"C:", "VS11", "Common7", "Tools", "">>

ArchTokens == {"x86", "x64"}

SdkA == <<"C:", "SDK", "v7.0A", "">>
SdkB == <<"C:", "SDK", "v7.1", "">>

\* output lines of '"vcvarsall.bat" <arch> & set', each <<key, value>> for KEY=value
OutSdkA == << <<"Path", <<"C:", "bin">> >>, <<"WindowsSdkDir", SdkA>>,
              <<"WindowsSdkDir", SdkB>> >>
OutSdkB == << <<"WindowsSdkDir", SdkB>>, <<"Path", <<"C:", "bin">> >> >>
OutNoSdk == << <<"Path", <<"C:", "bin">> >> >>
\* Popen raising instead of giving output: the script cannot be run
OSError == << <<"OSError", <<>> >> >>

---------------------------------------------------------------------------
\* The settings record of a project (the fields this module reads).

DefaultSettings ==
    [force_32_bit |-> FALSE, force_64_bit |-> FALSE, static |-> FALSE,
     profile |-> FALSE, debug_level |-> 0, type |-> "Application",
     static_runtime |-> FALSE, no_warnings |-> FALSE,
     warnings_as_errors |-> FALSE, defines |-> <<>>, undefines |-> <<>>,
     include_dirs |-> <<>>, library_dirs |-> <<>>, libraries |-> <<>>,
     static_libraries |-> <<>>, shared_libraries |-> <<>>,
     compiler_flags |-> <<>>, linker_flags |-> <<>>]

ProjectTypes == {"Application", "StaticLibrary", "SharedLibrary"}

---------------------------------------------------------------------------
\* toolchain_msvc.__init__

NewBuilder ==
    [_project_settings |-> None,
     msvc_version |-> DefaultMsvcVersion,
     debug_runtime |-> FALSE,
     debug_runtime_set |-> FALSE,
     _subsystem |-> DEFAULT,
     _vc_env_var |-> 0,
     _toolchain_path |-> <<>>,
     _bin_path |-> <<>>,
     _include_path |-> <<>>,
     _lib_path |-> <<>>,
     _platform_arch |-> X86,
     _build_64_bit |-> FALSE,
     subsystem_for |-> 0,
     runtime_for |-> 0]

---------------------------------------------------------------------------
\* SetupForProject, lines 62-107.

\* platform_architectures.get(platform.machine().lower(), X86)
PlatformArch(m) ==
    LET k == lower(m) IN
    IF k = "amd64" \/ k = "x86_64" THEN X64
    ELSE IF k = "x86" \/ k = "i386" THEN X86
    ELSE X86

\* the 32-bit override made to win over the 64-bit one
Build64Bit_Force32Wins(arch, settings) ==
    (arch = X64 \/ settings.force_64_bit) /\ ~settings.force_32_bit

\* lines 75-81
Build64Bit(arch, settings) ==
    IF arch = X64 /\ ~settings.force_64_bit /\ ~settings.force_32_bit THEN TRUE
    ELSE IF settings.force_64_bit THEN TRUE
    ELSE FALSE

\* lines 68-69: the statements before the environment lookup
SetupBind(s, settings) ==
    [s EXCEPT !._project_settings = settings, !._vc_env_var = s.msvc_version]

\* lines 70-87: the paths and the architecture, given the environment variable's value
SetupPaths(s, tools, m) ==
    LET tp == normpath(Join(Join(Join(tools, ".."), ".."), "VC"))
        arch == PlatformArch(m)
        b64 == Build64Bit(arch, s._project_settings)
        bin == Join(tp, "bin")
        lib == Join(tp, "lib")
    IN [s EXCEPT
          !._toolchain_path = tp,
          !._bin_path = IF b64 THEN Join(bin, IF arch = X64 THEN "amd64" ELSE "x86_amd64")
                        ELSE bin,
          !._include_path = <<Join(tp, "include")>>,
          !._lib_path = <<IF b64 THEN Join(lib, "amd64") ELSE lib>>,
          !._platform_arch = arch,
          !._build_64_bit = b64]

\* the memo flag ignored
NeedsVcVars_Always(has) == TRUE

\* line 91
NeedsVcVars(has) == ~has

\* line 94: the architecture token given to vcvarsall.bat
ArchToken(s) == IF s._build_64_bit THEN "x64" ELSE "x86"

RECURSIVE ScanSdkDir(_, _)
\* lines 98-102: the value of the first WindowsSdkDir= line, else the value before
ScanSdkDir(lines, old) ==
    IF lines = <<>> THEN old
    ELSE IF Head(lines)[1] = "WindowsSdkDir" THEN Head(lines)[2]
    ELSE ScanSdkDir(Tail(lines), old)

HasSdkLine(lines) == \E i \in 1 .. Len(lines) : lines[i][1] = "WindowsSdkDir"

\* line 106
SetupSdkInclude(s, sdk) ==
    [s EXCEPT !._include_path = Append(@, Join(sdk, "include"))]

\* line 107
SetupSdkLib(s, sdk) ==
    [s EXCEPT !._lib_path = Append(@, Join(Join(sdk, "lib"),
                                           IF s._build_64_bit THEN "x64" ELSE ""))]

\* lines 106-107, with nothing between the two reads of the global
SetupSdkPaths(s, sdk) == SetupSdkLib(SetupSdkInclude(s, sdk), sdk)

\* The whole call: the instance and the globals after it, and how it ended.
SetupForProject(s, settings, env, m, script, has, sdk) ==
    LET s1 == SetupBind(s, settings) IN
    IF s1._vc_env_var \notin env
    THEN [self |-> s1, has |-> has, sdk |-> sdk, raised |-> "KeyError",
          spawned |-> 0, wrote |-> <<>>]
    ELSE
    LET s2 == SetupPaths(s1, ComnTools(s1._vc_env_var), m) IN
    IF NeedsVcVars(has)
    THEN LET out == script[ArchToken(s2)] IN
         IF out = OSError
         THEN [self |-> s2, has |-> has, sdk |-> sdk, raised |-> "OSError",
               spawned |-> 0, wrote |-> <<>>]
         ELSE LET sdk2 == ScanSdkDir(out, sdk) IN
              [self |-> SetupSdkPaths(s2, sdk2), has |-> TRUE, sdk |-> sdk2,
               raised |-> "", spawned |-> 1,
               wrote |-> IF HasSdkLine(out) THEN <<sdk2>> ELSE <<>>]
    ELSE [self |-> SetupSdkPaths(s2, sdk), has |-> has, sdk |-> sdk,
          raised |-> "", spawned |-> 0, wrote |-> <<>>]

---------------------------------------------------------------------------
\* The fragment builders.  A fragment is <<flag, argument>>.

\* line 113
_get_compiler_exe(s) == << <<"exe", Join(s._bin_path, "cl")>> >>

\* line 117
_get_linker_exe(s) ==
    << <<"exe", Join(s._bin_path, IF s._project_settings.static THEN "lib" ELSE "link")>> >>

\* line 121
_get_default_compiler_args ==
    << <<"/nologo", <<>> >>, <<"/c", <<>> >>, <<"/arch:AVX", <<>> >> >>

\* lines 125-128
_get_default_linker_args(s) ==
    << <<"/NOLOGO", <<>> >> >>
    \o [i \in 1 .. Len(s._lib_path) |-> <<"/LIBPATH:", s._lib_path[i]>>]

\* lines 163-173
_get_preprocessor_definition_args(s) ==
    LET d == s._project_settings.defines
        u == s._project_settings.undefines
    IN [i \in 1 .. Len(d) |-> <<"/D", <<d[i]>> >>]
       \o [i \in 1 .. Len(u) |-> <<"/U", <<u[i]>> >>]

\* line 178
_get_architecture_arg(s) ==
    << <<"/MACHINE:", <<IF s._build_64_bit THEN "X64" ELSE "X86">> >> >>

\* lines 182-184
_get_runtime_linkage_arg(s) ==
    << <<"/" \o (IF s._project_settings.static_runtime THEN "MT" ELSE "MD")
             \o (IF s.debug_runtime THEN "d" ELSE ""), <<>> >> >>

\* lines 188-190
_get_runtime_library_arg(s) ==
    << <<"/DEFAULTLIB:",
         <<(IF s._project_settings.static_runtime THEN "libcmt" ELSE "msvcrt")
           \o (IF s.debug_runtime THEN "d" ELSE "") \o ".lib">> >> >>

\* lines 202-212
sub_system_type ==
    [v \in {CONSOLE, WINDOWS, WINDOWS_CE, NATIVE, POSIX, BOOT_APPLICATION,
            EFI_APPLICATION, EFI_BOOT_SERVICE_DRIVER, EFI_ROM, EFI_RUNTIME_DRIVER} |->
        CASE v = CONSOLE -> "CONSOLE"
          [] v = WINDOWS -> "WINDOWS"
          [] v = WINDOWS_CE -> "WINDOWSCE"
          [] v = NATIVE -> "NATIVE"
          [] v = POSIX -> "POSIX"
          [] v = BOOT_APPLICATION -> "BOOT_APPLICATION"
          [] v = EFI_APPLICATION -> "EFI_APPLICATION"
          [] v = EFI_BOOT_SERVICE_DRIVER -> "EFI_BOOT_SERVICE_DRIVER"
          [] v = EFI_ROM -> "EFI_ROM"
          [] v = EFI_RUNTIME_DRIVER -> "EFI_RUNTIME_DRIVER"]

\* the console subsystem taken to be implied like the default one
_get_subsystem_arg_ConsoleImplied(s) ==
    IF s._subsystem \in {DEFAULT, CONSOLE} THEN <<>>
    ELSE << <<"/SUBSYSTEM:", <<sub_system_type[s._subsystem]>> >> >>

\* lines 199-214
_get_subsystem_arg(s) ==
    IF s._subsystem = DEFAULT THEN <<>>
    ELSE << <<"/SUBSYSTEM:", <<sub_system_type[s._subsystem]>> >> >>

\* lines 219-224
_get_library_args(s) ==
    LET libs == s._project_settings.libraries \o s._project_settings.static_libraries
                \o s._project_settings.shared_libraries
    IN [i \in 1 .. Len(libs) |-> <<"lib", <<libs[i] \o ".lib">> >>]

\* warnings_as_errors tested before no_warnings
_get_warning_args_ErrorsFirst(s) ==
    IF s._project_settings.warnings_as_errors THEN << <<"/WX", <<>> >> >>
    ELSE IF s._project_settings.no_warnings THEN << <<"/w", <<>> >> >>
    ELSE <<>>

\* lines 229-234
_get_warning_args(s) ==
    IF s._project_settings.no_warnings THEN << <<"/w", <<>> >> >>
    ELSE IF s._project_settings.warnings_as_errors THEN << <<"/WX", <<>> >> >>
    ELSE <<>>

\* line 239
_get_linker_warning_arg(s) ==
    << <<"/WX" \o (IF s._project_settings.warnings_as_errors THEN "" ELSE ":NO"), <<>> >> >>

\* the default include paths added before the user's
_get_include_directory_args_DefaultsFirst(s) ==
    LET u == s._project_settings.include_dirs
    IN [i \in 1 .. Len(s._include_path) |-> <<"/I", s._include_path[i]>>]
       \o [i \in 1 .. Len(u) |-> <<"/I", normpath(u[i])>>]

\* lines 243-252
_get_include_directory_args(s) ==
    LET u == s._project_settings.include_dirs
    IN [i \in 1 .. Len(u) |-> <<"/I", normpath(u[i])>>]
       \o [i \in 1 .. Len(s._include_path) |-> <<"/I", s._include_path[i]>>]

\* lines 256-261
_get_library_directory_args(s) ==
    LET u == s._project_settings.library_dirs
    IN [i \in 1 .. Len(u) |-> <<"/LIBPATH:", normpath(u[i])>>]

\* line 265
_get_linker_output_arg(output_file) == << <<"/OUT:", output_file>> >>

\* lines 269-273
_get_linker_obj_file_args(obj_list) ==
    [i \in 1 .. Len(obj_list) |-> <<"obj", obj_list[i]>>]

\* lines 132-137
_get_compiler_args(s) ==
    _get_default_compiler_args
    \o _get_preprocessor_definition_args(s)
    \o _get_runtime_linkage_arg(s)
    \o _get_warning_args(s)
    \o _get_include_directory_args(s)

\* the test of the static setting left out
_get_non_static_library_linker_args_Always(s) ==
    _get_runtime_library_arg(s)
    \o (IF s._project_settings.profile THEN << <<"/PROFILE", <<>> >> >> ELSE <<>>)
    \o (IF s._project_settings.profile \/ s._project_settings.debug_level > 0
        THEN << <<"/DEBUG", <<>> >> >> ELSE <<>>)
    \o (IF s._project_settings.type = "SharedLibrary"
        THEN << <<"/DLL", <<>> >> >> ELSE <<>>)

\* lines 142-146
_get_non_static_library_linker_args(s) ==
    IF s._project_settings.static THEN <<>>
    ELSE _get_runtime_library_arg(s)
         \o (IF s._project_settings.profile THEN << <<"/PROFILE", <<>> >> >> ELSE <<>>)
         \o (IF s._project_settings.profile \/ s._project_settings.debug_level > 0
             THEN << <<"/DEBUG", <<>> >> >> ELSE <<>>)
         \o (IF s._project_settings.type = "SharedLibrary"
             THEN << <<"/DLL", <<>> >> >> ELSE <<>>)

\* lines 150-159
_get_linker_args(s, output_file, obj_list) ==
    _get_default_linker_args(s)
    \o _get_non_static_library_linker_args(s)
    \o _get_subsystem_arg(s)
    \o _get_architecture_arg(s)
    \o _get_linker_warning_arg(s)
    \o _get_library_directory_args(s)
    \o _get_linker_output_arg(output_file)
    \o _get_library_args(s)
    \o _get_linker_obj_file_args(obj_list)

\* " ".join(flags): the free-form flags, one fragment each
UserFlags(flags) == [i \in 1 .. Len(flags) |-> <<flags[i], <<>> >>]

\* lines 279-282
getCompilerCommand(s) ==
    _get_compiler_exe(s) \o _get_compiler_args(s)
    \o UserFlags(s._project_settings.compiler_flags)

\* lines 293-296
getLinkerCommand(s, output_file, obj_list) ==
    _get_linker_exe(s) \o _get_linker_args(s, output_file, obj_list)
    \o UserFlags(s._project_settings.linker_flags)

---------------------------------------------------------------------------
\* The public calls.  Each is one atomic step of a single-threaded caller.

NoCall ==
    [op |-> "none", b |-> 0, project |-> 0, settings |-> DefaultSettings,
     raised |-> "", spawned |-> 0, snap |-> NewBuilder, cmd |-> <<>>]

\* a public call: SetupForProject, then the command of the call made from
\* the instance as the setup left it (none when the setup raised)
Invoke(op, b, p, outputFile, objList) ==
    LET r == SetupForProject(self[b], projects[p], environ, machine, vcvarsall,
                             HAS_SET_VC_VARS, WINDOWS_SDK_DIR)
    IN /\ spawns + r.spawned <= MaxSpawns
       /\ self' = [self EXCEPT ![b] = r.self]
       /\ HAS_SET_VC_VARS' = r.has
       /\ WINDOWS_SDK_DIR' = r.sdk
       /\ spawns' = spawns + r.spawned
       /\ sdkWrites' = sdkWrites \o r.wrote
       /\ last' = [op |-> op, b |-> b, project |-> p, settings |-> projects[p],
                   raised |-> r.raised, spawned |-> r.spawned, snap |-> r.self,
                   cmd |-> IF r.raised # "" THEN <<>>
                           ELSE IF op = "get_link_command"
                           THEN getLinkerCommand(r.self, outputFile, objList)
                           ELSE getCompilerCommand(r.self)]
       /\ UNCHANGED <<environ, machine, vcvarsall, projects, thr, files>>

\* lines 315-317
get_base_cxx_command(b, p) ==
    Invoke("get_base_cxx_command", b, p, <<>>, <<>>)

\* lines 325-327
get_link_command(b, p, outputFile, objList) ==
    Invoke("get_link_command", b, p, outputFile, objList)

Setter(b, new) ==
    /\ self' = [self EXCEPT ![b] = new]
    /\ UNCHANGED <<HAS_SET_VC_VARS, WINDOWS_SDK_DIR, environ, machine, vcvarsall,
                   projects, last, spawns, thr, files, sdkWrites>>

\* lines 346-347
SetMsvcVersion(b, msvc_version) ==
    Setter(b, [self[b] EXCEPT !.msvc_version = msvc_version])

\* lines 349-351; p is the project the caller is configuring
DebugRuntime(b, p) ==
    Setter(b, [self[b] EXCEPT !.debug_runtime = TRUE, !.debug_runtime_set = TRUE,
                              !.runtime_for = p])

\* lines 354-356
ReleaseRuntime(b, p) ==
    Setter(b, [self[b] EXCEPT !.debug_runtime = FALSE, !.debug_runtime_set = TRUE,
                              !.runtime_for = p])

\* lines 358-359
SetOutputSubSystem(b, p, subsystem) ==
    Setter(b, [self[b] EXCEPT !._subsystem = subsystem, !.subsystem_for = p])

---------------------------------------------------------------------------
\* The hosts and the projects of the specifications.

OutFile == <<"out", "a.exe">>
ObjList == << <<"obj", "a.obj">> >>

\* a project forced to 32-bit and a project forced to 64-bit
ForcedProjects ==
    [p \in {1, 2} |->
        [DefaultSettings EXCEPT !.force_32_bit = (p = 1), !.force_64_bit = (p = 2)]]

\* every combination of the two architecture overrides
ArchSettings ==
    {[DefaultSettings EXCEPT !.force_32_bit = f32, !.force_64_bit = f64] :
        f32 \in BOOLEAN, f64 \in BOOLEAN}

\* the script gives the same SDK for both architectures, or one for each, or no
\* SDK line at all, or cannot be run
VcvarsallChoices ==
    {[a \in ArchTokens |-> o] : o \in {OutSdkA, OutNoSdk, OSError}}
    \cup {[a \in ArchTokens |-> IF a = "x86" THEN OutSdkA ELSE OutSdkB]}

\* the state of the process before any call
Fresh ==
    /\ HAS_SET_VC_VARS = FALSE
    /\ WINDOWS_SDK_DIR = <<>>
    /\ self = [b \in Builders |-> NewBuilder]
    /\ last = NoCall
    /\ spawns = 0
    /\ sdkWrites = <<>>

\* a host with the toolchain installed and a script that gives an SDK root
GoodHost ==
    /\ environ = {DefaultMsvcVersion}
    /\ vcvarsall \in {[a \in ArchTokens |-> OutSdkA],
                      [a \in ArchTokens |-> IF a = "x86" THEN OutSdkA ELSE OutSdkB]}

---------------------------------------------------------------------------
\* Specification Spec: any number of builders, called one after the other, on a
\* host whose toolchain may be missing and whose setup script may fail.

Init ==
    /\ Fresh
    /\ environ \in {{}, {DefaultMsvcVersion}}
    /\ machine \in {"AMD64", "x86"}
    /\ vcvarsall \in VcvarsallChoices
    /\ projects = ForcedProjects
    /\ thr = <<>>
    /\ files = {}

\* the first builder is the one whose toolchain version the caller changes
Next ==
    \/ \E b \in Builders, p \in DOMAIN projects : get_base_cxx_command(b, p)
    \/ \E b \in Builders, p \in DOMAIN projects :
           get_link_command(b, p, OutFile, ObjList)
    \/ \E v \in MsvcVersions : SetMsvcVersion(1, v)

Spec == Init /\ [][Next]_vars

---------------------------------------------------------------------------
\* Specification SpecArch: one builder on every host, one project with every
\* combination of the overrides.

InitArch ==
    /\ Fresh
    /\ environ \in {{}, {DefaultMsvcVersion}}
    /\ machine \in MachineNames
    /\ vcvarsall \in VcvarsallChoices
    /\ projects \in [{1} -> ArchSettings]
    /\ thr = <<>>
    /\ files = {}

NextArch ==
    \/ get_base_cxx_command(1, 1)
    \/ get_link_command(1, 1, OutFile, ObjList)

SpecArch == InitArch /\ [][NextArch]_vars

---------------------------------------------------------------------------
\* Specification SpecProjects: one builder used for several projects in turn,
\* each call and each setter made on behalf of one of them.

NumProjects == 2

\* the projects are forced to 32-bit and to 64-bit in turn
InitProjects ==
    /\ Fresh
    /\ environ = {DefaultMsvcVersion}
    /\ vcvarsall = [a \in ArchTokens |-> OutSdkA]
    /\ machine = "AMD64"
    /\ projects = [p \in 1 .. NumProjects |->
                     [DefaultSettings EXCEPT !.force_32_bit = (p % 2 = 1),
                                             !.force_64_bit = (p % 2 = 0)]]
    /\ thr = <<>>
    /\ files = {}

NextProjects ==
    \/ \E p \in DOMAIN projects : get_base_cxx_command(1, p)
    \/ \E p \in DOMAIN projects : get_link_command(1, p, OutFile, ObjList)
    \/ \E p \in DOMAIN projects : DebugRuntime(1, p)
    \/ \E p \in DOMAIN projects : ReleaseRuntime(1, p)
    \/ \E p \in DOMAIN projects, sub \in {DEFAULT, CONSOLE} :
           SetOutputSubSystem(1, p, sub)

SpecProjects == InitProjects /\ [][NextProjects]_vars

---------------------------------------------------------------------------
\* Specification SpecStatic: one project with every combination of the settings
\* the linker's dynamic-only flags depend on.

MaxDebugLevel == 2

LinkSettings ==
    {[DefaultSettings EXCEPT
        !.static = st, !.profile = pr, !.debug_level = dl, !.type = ty,
        !.static_runtime = sr,
        !.libraries = <<"kernel32">>, !.static_libraries = <<"z">>,
        !.shared_libraries = <<"ssl">>,
        !.library_dirs = << <<"deps", ".", "lib">> >>,
        !.linker_flags = <<"/LTCG">>] :
        st \in BOOLEAN, pr \in BOOLEAN, dl \in 0 .. MaxDebugLevel,
        ty \in ProjectTypes, sr \in BOOLEAN}

InitStatic ==
    /\ Fresh
    /\ GoodHost
    /\ machine = "AMD64"
    /\ projects \in [{1} -> LinkSettings]
    /\ thr = <<>>
    /\ files = {}

NextStatic ==
    \/ get_link_command(1, 1, OutFile, ObjList)
    \/ DebugRuntime(1, 1)
    \/ ReleaseRuntime(1, 1)

SpecStatic == InitStatic /\ [][NextStatic]_vars

---------------------------------------------------------------------------
\* Specification SpecSubsystem: one project, any sequence of SetOutputSubSystem
\* calls with the values of the enumeration.

InitSubsystem ==
    /\ Fresh
    /\ GoodHost
    /\ machine = "x86"
    /\ projects \in [{1} -> {s \in LinkSettings :
                               /\ ~s.profile /\ s.debug_level = 0
                               /\ ~s.static_runtime}]
    /\ thr = <<>>
    /\ files = {}

NextSubsystem ==
    \/ get_link_command(1, 1, OutFile, ObjList)
    \/ \E sub \in SubSystem : SetOutputSubSystem(1, 1, sub)

SpecSubsystem == InitSubsystem /\ [][NextSubsystem]_vars

---------------------------------------------------------------------------
\* Specification SpecCompile: one project with every combination of the settings
\* the compile command is made of.

DefineNames == {"FOO", "BAR=1"}
UndefineNames == {"NDEBUG"}
IncludeDirs == {<<"inc">>, <<"src", "..", "third_party", "">>}

CompileSettings ==
    {[DefaultSettings EXCEPT
        !.defines = d, !.undefines = u, !.include_dirs = i,
        !.no_warnings = nw, !.warnings_as_errors = wae, !.static_runtime = sr,
        !.compiler_flags = <<"/EHsc">>] :
        d \in SeqsUpTo(DefineNames), u \in SeqsUpTo(UndefineNames),
        i \in SeqsUpTo(IncludeDirs),
        nw \in BOOLEAN, wae \in BOOLEAN, sr \in BOOLEAN}

InitCompile ==
    /\ Fresh
    /\ GoodHost
    /\ machine = "AMD64"
    /\ projects \in [{1} -> CompileSettings]
    /\ thr = <<>>
    /\ files = {}

NextCompile ==
    \/ get_base_cxx_command(1, 1)
    \/ DebugRuntime(1, 1)

SpecCompile == InitCompile /\ [][NextCompile]_vars

---------------------------------------------------------------------------
\* find_library, lines 301-312.

NotFound == [found |-> FALSE, path |-> <<>>]

RECURSIVE FirstExisting(_, _)
\* lines 304-312: the loop over the directories
FirstExisting(library, library_dirs) ==
    IF library_dirs = <<>> THEN NotFound
    ELSE LET lib_file_path == Join(Head(library_dirs), library) IN
         IF lib_file_path \in files THEN [found |-> TRUE, path |-> lib_file_path]
         ELSE FirstExisting(library, Tail(library_dirs))

RECURSIVE LastExisting(_, _)
\* the loop made to keep the last match instead of returning the first
LastExisting(library, library_dirs) ==
    IF library_dirs = <<>> THEN NotFound
    ELSE LET lib_file_path == Join(Last(library_dirs), library) IN
         IF lib_file_path \in files THEN [found |-> TRUE, path |-> lib_file_path]
         ELSE LastExisting(library, Front(library_dirs))

find_library_LastMatch(library, library_dirs, force_static, force_shared) ==
    LastExisting(library \o ".lib", library_dirs)

\* lines 301-312
find_library(library, library_dirs, force_static, force_shared) ==
    FirstExisting(library \o ".lib", library_dirs)

\* the call waiting in last is made
CallFindLibrary ==
    /\ last' = [last EXCEPT
                  !.op = "find_library",
                  !.result = find_library(last.library, last.library_dirs,
                                          last.force_static, last.force_shared)]
    /\ UNCHANGED <<HAS_SET_VC_VARS, WINDOWS_SDK_DIR, environ, machine, vcvarsall,
                   projects, self, spawns, thr, files, sdkWrites>>

---------------------------------------------------------------------------
\* Specification SpecLib: one call of find_library with every library name,
\* list of directories and filesystem content of the bounds.

LibNames == {"z", "ssl"}
LibDirs == {<<"C:", "libs">>, <<"deps", "lib", "">>, <<"C:", "SDK", "lib">>}

\* z.lib in each directory, and two files that are not the library asked for
LibFiles ==
    {Join(d, "z.lib") : d \in LibDirs}
    \cup {<<"C:", "libs", "z">>, <<"deps", "lib", "ssl.dll">>}

InitLib ==
    /\ HAS_SET_VC_VARS = FALSE
    /\ WINDOWS_SDK_DIR = <<>>
    /\ environ = {DefaultMsvcVersion}
    /\ machine = "AMD64"
    /\ vcvarsall = [a \in ArchTokens |-> OutSdkA]
    /\ projects = ForcedProjects
    /\ self = [b \in Builders |-> NewBuilder]
    /\ spawns = 0
    /\ sdkWrites = <<>>
    /\ thr = <<>>
    /\ files \in SUBSET LibFiles
    /\ last \in [op : {"pending"}, library : LibNames,
                 library_dirs : SeqsUpTo(LibDirs),
                 force_static : BOOLEAN, force_shared : BOOLEAN,
                 result : {NotFound}]

NextLib == CallFindLibrary

SpecLib == InitLib /\ [][NextLib]_vars

---------------------------------------------------------------------------
\* Specification SpecConc: every builder has a thread of its own inside
\* SetupForProject; a step is what runs between two uses of the globals.

Idle == [pc |-> "idle", out |-> <<>>, read |-> <<>>]

At(t, pc) == thr[t].pc = pc

Goto(t, pc) == thr' = [thr EXCEPT ![t].pc = pc]

\* lines 68-87
T_Enter(t, p) ==
    /\ At(t, "idle")
    /\ LET s1 == SetupBind(self[t], projects[p]) IN
       IF s1._vc_env_var \notin environ
       THEN self' = [self EXCEPT ![t] = s1] /\ Goto(t, "raised")
       ELSE /\ self' = [self EXCEPT ![t] = SetupPaths(s1, ComnTools(s1._vc_env_var),
                                                       machine)]
            /\ Goto(t, "check")
    /\ UNCHANGED <<HAS_SET_VC_VARS, WINDOWS_SDK_DIR, environ, machine, vcvarsall,
                   projects, last, spawns, files, sdkWrites>>

\* line 91
T_Check(t) ==
    /\ At(t, "check")
    /\ Goto(t, IF NeedsVcVars(HAS_SET_VC_VARS) THEN "popen" ELSE "read106")
    /\ UNCHANGED <<HAS_SET_VC_VARS, WINDOWS_SDK_DIR, environ, machine, vcvarsall,
                   projects, self, last, spawns, files, sdkWrites>>

\* lines 93-96
T_Popen(t) ==
    /\ At(t, "popen")
    /\ LET out == vcvarsall[ArchToken(self[t])] IN
       IF out = OSError
       THEN Goto(t, "raised") /\ spawns' = spawns
       ELSE /\ thr' = [thr EXCEPT ![t].pc = "scan", ![t].out = out]
            /\ spawns' = spawns + 1
    /\ UNCHANGED <<HAS_SET_VC_VARS, WINDOWS_SDK_DIR, environ, machine, vcvarsall,
                   projects, self, last, files, sdkWrites>>

\* lines 98-102
T_Scan(t) ==
    /\ At(t, "scan")
    /\ Goto(t, "setflag")
    /\ WINDOWS_SDK_DIR' = ScanSdkDir(thr[t].out, WINDOWS_SDK_DIR)
    /\ sdkWrites' = IF HasSdkLine(thr[t].out)
                    THEN Append(sdkWrites, ScanSdkDir(thr[t].out, WINDOWS_SDK_DIR))
                    ELSE sdkWrites
    /\ UNCHANGED <<HAS_SET_VC_VARS, environ, machine, vcvarsall, projects, self,
                   last, spawns, files>>

\* line 104
T_SetFlag(t) ==
    /\ At(t, "setflag")
    /\ Goto(t, "read106")
    /\ HAS_SET_VC_VARS' = TRUE
    /\ UNCHANGED <<WINDOWS_SDK_DIR, environ, machine, vcvarsall, projects, self,
                   last, spawns, files, sdkWrites>>

\* line 106
T_Read106(t) ==
    /\ At(t, "read106")
    /\ thr' = [thr EXCEPT ![t].pc = "read107", ![t].read = WINDOWS_SDK_DIR]
    /\ self' = [self EXCEPT ![t] = SetupSdkInclude(@, WINDOWS_SDK_DIR)]
    /\ UNCHANGED <<HAS_SET_VC_VARS, WINDOWS_SDK_DIR, environ, machine, vcvarsall,
                   projects, last, spawns, files, sdkWrites>>

\* line 107
T_Read107(t) ==
    /\ At(t, "read107")
    /\ Goto(t, "done")
    /\ self' = [self EXCEPT ![t] = SetupSdkLib(@, WINDOWS_SDK_DIR)]
    /\ UNCHANGED <<HAS_SET_VC_VARS, WINDOWS_SDK_DIR, environ, machine, vcvarsall,
                   projects, last, spawns, files, sdkWrites>>

InitConc ==
    /\ Fresh
    /\ environ \in {{}, {DefaultMsvcVersion}}
    /\ machine = "AMD64"
    /\ vcvarsall \in VcvarsallChoices
    /\ projects = ForcedProjects
    /\ thr = [t \in Builders |-> Idle]
    /\ files = {}

NextConc ==
    \/ \E t \in Builders, p \in DOMAIN projects : T_Enter(t, p)
    \/ \E t \in Builders : T_Check(t)
    \/ \E t \in Builders : T_Popen(t)
    \/ \E t \in Builders : T_Scan(t)
    \/ \E t \in Builders : T_SetFlag(t)
    \/ \E t \in Builders : T_Read106(t)
    \/ \E t \in Builders : T_Read107(t)

SpecConc == InitConc /\ [][NextConc]_vars

---------------------------------------------------------------------------
\* What the claims read off a command and off the last call.

\* the fragments of a command that carry one of the flags
Fragments(cmd, flags) == SelectSeq(cmd, LAMBDA f : f[1] \in flags)

Returned(op) == last.op = op /\ last.raised = ""

\* the call got as far as the SDK paths of lines 106-107
IsSetUp(s) == Len(s._include_path) = 2 /\ Len(s._lib_path) = 2

\* the host names that platform_architectures maps to X64, whatever their case
Host64 == machine \in {"AMD64", "amd64", "x86_64", "X86_64"}

---------------------------------------------------------------------------
\* C1 as stated: once a SetupForProject call has been made, the setup script has
\* been spawned exactly once (by the first call) and the SDK root is memoized.
C1_SpawnedOnFirstCall ==
    last.op # "none" => spawns = 1 /\ HAS_SET_VC_VARS

\* C1 amended: the setup script is spawned at most once, by the first call that
\* finds the toolchain and whose spawn succeeds: a call that returns normally
\* leaves exactly one spawn behind, a call that raises spawns nothing,
\* WINDOWS_SDK_DIR is assigned at most once, and every builder that was set up,
\* whatever architecture it asked for, carries the include and lib directories
\* of that one SDK root.
C1_SpawnedAtMostOnce ==
    /\ spawns <= 1
    /\ HAS_SET_VC_VARS <=> spawns = 1
    /\ Len(sdkWrites) <= spawns
    /\ WINDOWS_SDK_DIR = (IF sdkWrites = <<>> THEN <<>> ELSE sdkWrites[1])
    /\ last.op # "none" /\ last.raised = "" => spawns = 1
    /\ last.raised # "" => last.spawned = 0
    /\ last.raised = "OSError" => spawns = 0
    /\ \A b \in Builders :
         IsSetUp(self[b]) =>
           /\ self[b]._include_path[2] = Join(WINDOWS_SDK_DIR, "include")
           /\ self[b]._lib_path[2] =
                Join(Join(WINDOWS_SDK_DIR, "lib"),
                     IF self[b]._build_64_bit THEN "x64" ELSE "")

\* two builders set up for different architectures on a host whose script gives
\* a different SDK root for each, after a single spawn made by a call that was
\* not the first
C1_Witness ==
    /\ spawns = 1
    /\ vcvarsall["x86"] # vcvarsall["x64"]
    /\ self[1].msvc_version # DefaultMsvcVersion
    /\ self[1]._project_settings # None
    /\ \E a, b \in Builders :
         /\ IsSetUp(self[a]) /\ IsSetUp(self[b])
         /\ self[a]._build_64_bit /\ ~self[b]._build_64_bit
         /\ last.b = b /\ last.raised = "" /\ last.spawned = 0

\* C4 as stated: when the script gives no WindowsSdkDir= line, or cannot be run,
\* the call does not return normally and no command is produced.
C4_NoSdkLineRaises ==
    (last.op # "none" /\ \A a \in ArchTokens : ~HasSdkLine(vcvarsall[a]))
        => last.raised # "" /\ last.cmd = <<>>

\* C5: the architecture a call decides is 64-bit exactly when the host is 64-bit
\* with no override, or the 64-bit override is set; an unrecognized host counts
\* as 32-bit; the link command carries one /MACHINE fragment, X64 or X86 accordingly.
C5_ArchitectureTable ==
    (last.op # "none" /\ last.raised # "KeyError") =>
        LET st == last.settings
            want64 == (Host64 /\ ~st.force_32_bit /\ ~st.force_64_bit)
                      \/ st.force_64_bit
        IN /\ last.snap._build_64_bit = want64
           /\ Returned("get_link_command") =>
                Fragments(last.cmd, {"/MACHINE:"})
                    = << <<"/MACHINE:", <<IF want64 THEN "X64" ELSE "X86">> >> >>

\* an unrecognized host with both overrides set links for X64
C5_Witness ==
    /\ Returned("get_link_command")
    /\ machine = "ARM64"
    /\ last.settings.force_32_bit /\ last.settings.force_64_bit
    /\ Fragments(last.cmd, {"/MACHINE:"}) = << <<"/MACHINE:", <<"X64">> >> >>

\* C3 as stated: the command made for a project carries the architecture of that
\* project's settings, and a subsystem or a debug runtime only if it was chosen
\* for that project: what a setter call chose for another project is not in it.
C3_NothingCarriesOver ==
    Returned("get_link_command") =>
        LET s == last.snap
            want64 == last.settings.force_64_bit
        IN /\ Fragments(last.cmd, {"/MACHINE:"})
                = << <<"/MACHINE:", <<IF want64 THEN "X64" ELSE "X86">> >> >>
           /\ s.subsystem_for # last.project =>
                Fragments(last.cmd, {"/SUBSYSTEM:"}) = <<>>
           /\ s.runtime_for # last.project =>
                Fragments(last.cmd, {"/DEFAULTLIB:"})
                    = << <<"/DEFAULTLIB:", <<"msvcrt.lib">> >> >>

\* C6: the link command of a static library starts with the archiver, lib, and
\* has no /DLL, /PROFILE, /DEBUG or /DEFAULTLIB fragment.
C6_StaticLibraryLink ==
    (Returned("get_link_command") /\ last.settings.static) =>
        /\ last.cmd[1][1] = "exe"
        /\ Last(last.cmd[1][2]) = "lib"
        /\ Fragments(last.cmd, {"/DLL", "/PROFILE", "/DEBUG", "/DEFAULTLIB:"}) = <<>>

\* a static library with every setting that asks for a dynamic-only flag
C6_Witness ==
    /\ Returned("get_link_command")
    /\ last.settings.static /\ last.settings.profile
    /\ last.settings.debug_level > 0 /\ last.settings.type = "SharedLibrary"
    /\ last.settings.static_runtime /\ last.snap.debug_runtime
    /\ Len(last.cmd) > 1

\* where a fragment of the compile command belongs in the documented order
Rank(f) ==
    CASE f[1] = "exe" -> 0
      [] f[1] \in {"/nologo", "/c", "/arch:AVX"} -> 1
      [] f[1] = "/D" -> 2
      [] f[1] = "/U" -> 3
      [] f[1] \in {"/MT", "/MTd", "/MD", "/MDd"} -> 4
      [] f[1] \in {"/w", "/WX"} -> 5
      [] f[1] = "/I" -> 6
      [] OTHER -> 7

\* C7: the fragments of the compile command come in the order base flags,
\* defines, undefines, runtime linkage, diagnostics, include directories; the
\* defines and the undefines in the settings' order; the user's include
\* directories, normalized, before the toolchain's and then the SDK's.
C7_CompileOrder ==
    Returned("get_base_cxx_command") =>
        LET c == last.cmd
            st == last.settings
            defs == Fragments(c, {"/D"})
            undefs == Fragments(c, {"/U"})
            inc == Fragments(c, {"/I"})
            n == Len(st.include_dirs)
        IN /\ \A i, j \in 1 .. Len(c) : i < j => Rank(c[i]) <= Rank(c[j])
           /\ Fragments(c, {"/nologo", "/c", "/arch:AVX"})
                = << <<"/nologo", <<>> >>, <<"/c", <<>> >>, <<"/arch:AVX", <<>> >> >>
           /\ [k \in 1 .. Len(defs) |-> defs[k][2][1]] = st.defines
           /\ [k \in 1 .. Len(undefs) |-> undefs[k][2][1]] = st.undefines
           /\ Len(Fragments(c, {"/MT", "/MTd", "/MD", "/MDd"})) = 1
           /\ Len(inc) = n + 2
           /\ \A k \in 1 .. n : inc[k][2] = normpath(st.include_dirs[k])
           /\ inc[n + 1][2] = <<"C:", "VS10", "VC", "include">>
           /\ inc[n + 2][2] = Join(WINDOWS_SDK_DIR, "include")

\* a compile command with two defines, an undefine, two user include
\* directories and a diagnostics flag
C7_Witness ==
    /\ Returned("get_base_cxx_command")
    /\ Len(last.settings.defines) = 2
    /\ last.settings.defines[1] # last.settings.defines[2]
    /\ Len(last.settings.undefines) >= 1
    /\ Len(last.settings.include_dirs) = 2
    /\ last.settings.include_dirs[1] # last.settings.include_dirs[2]
    /\ last.settings.no_warnings
    /\ Len(Fragments(last.cmd, {"/I"})) = 4

\* C8: the compile command has at most one diagnostics fragment: /w whenever
\* no_warnings is set, /WX exactly when warnings_as_errors is set and no_warnings
\* is not, none when neither is set; and no combination makes the call fail.
C8_OneDiagnosticsFlag ==
    last.op = "get_base_cxx_command" =>
        LET st == last.settings
            diag == Fragments(last.cmd, {"/w", "/WX"})
        IN /\ last.raised = ""
           /\ Len(diag) <= 1
           /\ st.no_warnings => diag = << <<"/w", <<>> >> >>
           /\ (diag = << <<"/WX", <<>> >> >>)
                <=> (st.warnings_as_errors /\ ~st.no_warnings)
           /\ (~st.no_warnings /\ ~st.warnings_as_errors) => diag = <<>>

\* both policies set, and the command carries /w
C8_Witness ==
    /\ Returned("get_base_cxx_command")
    /\ last.settings.no_warnings /\ last.settings.warnings_as_errors
    /\ Fragments(last.cmd, {"/w", "/WX"}) = << <<"/w", <<>> >> >>

\* the subsystem names link.exe accepts after /SUBSYSTEM:
LinkerSubsystems ==
    {"BOOT_APPLICATION", "CONSOLE", "EFI_APPLICATION", "EFI_BOOT_SERVICE_DRIVER",
     "EFI_ROM", "EFI_RUNTIME_DRIVER", "NATIVE", "POSIX", "WINDOWS", "WINDOWSCE"}

\* C9: the link command has no /SUBSYSTEM fragment when the builder's subsystem
\* is DEFAULT and exactly one otherwise, its name the table's entry for the
\* value; the table has an entry for every value but DEFAULT, each a different
\* subsystem name of the linker.
C9_SubsystemFragment ==
    /\ DOMAIN sub_system_type = SubSystem \ {DEFAULT}
    /\ \A v, w \in DOMAIN sub_system_type :
         /\ sub_system_type[v] \in LinkerSubsystems
         /\ v # w => sub_system_type[v] # sub_system_type[w]
    /\ Returned("get_link_command") =>
         LET sub == Fragments(last.cmd, {"/SUBSYSTEM:"})
             v == last.snap._subsystem
         IN IF v = DEFAULT THEN sub = <<>>
            ELSE sub = << <<"/SUBSYSTEM:", <<sub_system_type[v]>> >> >>

\* a link command made for the console subsystem after the subsystem had been
\* set to something else and the builder has since gone back to DEFAULT
C9_Witness ==
    /\ Returned("get_link_command")
    /\ last.snap._subsystem = CONSOLE
    /\ Fragments(last.cmd, {"/SUBSYSTEM:"}) = << <<"/SUBSYSTEM:", <<"CONSOLE">> >> >>
    /\ self[1]._subsystem = DEFAULT

\* C2 as stated: with the builders' calls interleaved, WINDOWS_SDK_DIR is
\* assigned at most once, and what a builder has read of it is the value of that
\* first assignment, not an earlier one.
C2_WrittenOnceFirstWins ==
    /\ Len(sdkWrites) <= 1
    /\ \A t \in Builders :
         (thr[t].pc \in {"read107", "done"} /\ sdkWrites # <<>>)
             => thr[t].read = sdkWrites[1]

\* the smallest index of a non-empty set of indexes
Least(S) == CHOOSE i \in S : \A j \in S : i <= j

\* C10: find_library gives the path of name.lib in the first directory of the
\* list that holds it, and nothing exactly when no directory of the list holds
\* it, whatever force_static and force_shared are.
C10_FirstDirectoryWins ==
    last.op = "find_library" =>
        LET target == last.library \o ".lib"
            dirs == last.library_dirs
            hits == {i \in 1 .. Len(dirs) : Join(dirs[i], target) \in files}
        IN IF hits = {} THEN last.result = NotFound
           ELSE /\ last.result.found
                /\ last.result.path = Join(dirs[Least(hits)], target)

\* the library is in two different directories of the list and the first is given
C10_Witness ==
    /\ last.op = "find_library"
    /\ Len(last.library_dirs) >= 2
    /\ last.library_dirs[1] # last.library_dirs[2]
    /\ Join(last.library_dirs[1], "z.lib") \in files
    /\ Join(last.library_dirs[2], "z.lib") \in files
    /\ last.force_shared
    /\ last.result = [found |-> TRUE, path |-> Join(last.library_dirs[1], "z.lib")]

=============================================================================
